---- MODULE Spec2Model ----
(***************************************************************************)
(* A model of the two programs of the repository:                          *)
(*   scrooge_coin.py  - the single-authority ledger (class ScroogeCoin,    *)
(*                      class User)                                        *)
(*   proof_of_work.py - the proof-of-work miner (class Miner) and the      *)
(*                      compact-target codec                               *)
(* SHA-256 is modelled as an ideal hash: the digest of a JSON document is  *)
(* the tagged document itself, so two digests are equal exactly when the   *)
(* hashed documents are equal.  ECDSA is modelled as an ideal signature: a *)
(* signature names the key pair that made it and the message it covers.    *)
(***************************************************************************)
EXTENDS Integers, Sequences, FiniteSets, TLC

VARIABLES
    chain,                  \* ScroogeCoin.chain
    current_transactions,   \* ScroogeCoin.current_transactions
    heap,                   \* the block dicts the Miner has created
    Miner_chain,            \* Miner.chain: references into heap
    mining,                 \* the block Miner.mine is working on, 0 if none
    args,                   \* the arguments handed to the retarget functions
    new_target,             \* what the last call that yields a target gave
    new_bits,               \* what get_bits_from_target gave for that target
    sealing,                \* where a running ScroogeCoin.mine is, and its block
    adding,                 \* the transaction a running add_tx has validated
    accepted,               \* the transactions add_tx returned True for
    last                    \* the last call and what it returned or raised

ledgerVars == <<chain, current_transactions>>

minerVars == <<heap, Miner_chain, mining>>

retargetVars == <<args, new_target, new_bits>>

threadVars == <<sealing, adding, accepted>>

vars == <<chain, current_transactions, heap, Miner_chain, mining,
          args, new_target, new_bits, sealing, adding, accepted, last>>

(***************************************************************************)
(* Bounds of the model                                                     *)
(***************************************************************************)
\* longest ledger chain explored (mine is not called beyond it)
MaxChain == 2
\* most transactions held by the ledger, sealed and pending together
MaxTx == 3

(***************************************************************************)
(* Keys and addresses                                                      *)
(***************************************************************************)
\* key pairs: Scrooge's and two users'
ScroogeKey == "kS"
UserKeys == {"kA", "kB"}
Keys == {ScroogeKey} \cup UserKeys

\* self.address = sha256(hex(public_key.x << 256 | public_key.y))
address_of(public_key) ==
    CASE public_key = "kS" -> "addrS"
      [] public_key = "kA" -> "addrA"
      [] public_key = "kB" -> "addrB"

Addresses == {address_of(k) : k \in Keys}
UserAddresses == {address_of(k) : k \in UserKeys}

(***************************************************************************)
(* Hashing and signing                                                     *)
(***************************************************************************)
\* json.dumps(-1): the document hashed for the first block's previous_hash
JsonInt(n) == [json_int |-> n]

\* hashlib.sha256(json.dumps(block, sort_keys = True, indent = 4)).hexdigest()
create_hash(block) == [sha256 |-> block]

\* ecdsa.sign(hash_, private_key)
sign(hash_, private_key) == [signer |-> private_key, msg |-> hash_]

\* ecdsa.verify(signature, hash_, public_key)
verify(signature, hash_, public_key) ==
    signature.signer = public_key /\ signature.msg = hash_

(***************************************************************************)
(* Python list indexing                                                    *)
(***************************************************************************)
\* whether list[i] is defined: Python accepts -len <= i < len
InRange(list, i) == -Len(list) <= i /\ i < Len(list)

\* list[i] for an index in range (negative indices count from the end)
Item(list, i) == IF i >= 0 THEN list[i + 1] ELSE list[Len(list) + i + 1]

\* list[start:] (a negative start counts from the end, clipped at 0)
SliceFrom(list, start) ==
    LET s == IF start >= 0 THEN start
             ELSE IF Len(list) + start > 0 THEN Len(list) + start ELSE 0
    IN  IF s >= Len(list) THEN <<>> ELSE SubSeq(list, s + 1, Len(list))

RECURSIVE SumSeq(_)
SumSeq(s) == IF s = <<>> THEN 0 ELSE Head(s) + SumSeq(Tail(s))

RECURSIVE SumValues(_)
\* sum(d.values()) of a dict
SumValues(d) ==
    IF DOMAIN d = {} THEN 0
    ELSE LET k == CHOOSE k \in DOMAIN d : TRUE
         IN  d[k] + SumValues([j \in DOMAIN d \ {k} |-> d[j]])

(***************************************************************************)
(* Transactions                                                            *)
(***************************************************************************)
\* "locations" of a transaction that creates coins
Minted == [block |-> -1, tx |-> -1, amount |-> -1]

\* the part of a transaction that is hashed
Body(tx) == [sender |-> tx.sender, locations |-> tx.locations,
             receivers |-> tx.receivers]

\* a transaction dict
Tx(sender, locations, receivers, hash, signature) ==
    [sender |-> sender, locations |-> locations, receivers |-> receivers,
     hash |-> hash, signature |-> signature]

\* User.send_tx: the user's own address as sender, hashed, signed by the user
send_tx(user, receivers, previous_tx_locations) ==
    LET body == [sender |-> address_of(user),
                 locations |-> previous_tx_locations,
                 receivers |-> receivers]
    IN  Tx(body.sender, body.locations, body.receivers, create_hash(body),
           sign(create_hash(body), user))

(***************************************************************************)
(* ScroogeCoin.get_user_tx_positions                                       *)
(***************************************************************************)
RECURSIVE PositionsInBlock(_, _, _)
\* the funded positions of address among the transactions from tx_index on
PositionsInBlock(block, tx_index, address) ==
    IF tx_index >= Len(block.transactions) THEN <<>>
    ELSE LET old_tx == block.transactions[tx_index + 1]
             here == IF address \in DOMAIN old_tx.receivers
                     THEN <<[block |-> block.index, tx |-> tx_index,
                             amount |-> old_tx.receivers[address]]>>
                     ELSE <<>>
         IN  here \o PositionsInBlock(block, tx_index + 1, address)

RECURSIVE PositionsInChain(_, _)
PositionsInChain(blocks, address) ==
    IF blocks = <<>> THEN <<>>
    ELSE PositionsInBlock(Head(blocks), 0, address)
         \o PositionsInChain(Tail(blocks), address)

\* a query that reads the pending transactions as one more block
get_user_tx_positions_with_pending(address) ==
    PositionsInChain(Append(chain, [index |-> Len(chain),
                                    transactions |-> current_transactions]),
                     address)

get_user_tx_positions(address) == PositionsInChain(chain, address)

(***************************************************************************)
(* ScroogeCoin.validate_tx                                                 *)
(***************************************************************************)
\* the locations.amount of the transactions of one block that come from
\* sender and point to the same block and transaction as locations
SpentInBlock(block, sender, locations) ==
    LET hit(transaction) == /\ transaction.sender = sender
                            /\ transaction.locations.block = locations.block
                            /\ transaction.locations.tx = locations.tx
        hits == SelectSeq(block.transactions, hit)
    IN  SumSeq([i \in 1..Len(hits) |-> hits[i].locations.amount])

\* a scan that starts one block later
spent_coins_skipping_a_block(sender, locations) ==
    LET later == SliceFrom(chain, locations.block + 2)
    IN  SumSeq([i \in 1..Len(later) |-> SpentInBlock(later[i], sender, locations)])

\* spent_coins: summed over the blocks mined after locations.block
spent_coins(sender, locations) ==
    LET later == SliceFrom(chain, locations.block + 1)
    IN  SumSeq([i \in 1..Len(later) |-> SpentInBlock(later[i], sender, locations)])

\* what evaluating self.chain[block]["transactions"][tx]["receivers"][sender]
\* raises, "" when it raises nothing
received_coins_raises(sender, locations) ==
    IF ~InRange(chain, locations.block) THEN "IndexError"
    ELSE LET txs == Item(chain, locations.block).transactions
         IN  IF ~InRange(txs, locations.tx) THEN "IndexError"
             ELSE IF sender \notin DOMAIN Item(txs, locations.tx).receivers
                  THEN "KeyError"
                  ELSE ""

received_coins(sender, locations) ==
    Item(Item(chain, locations.block).transactions, locations.tx).receivers[sender]

is_correct_hash(tx) == tx.hash = create_hash(Body(tx))

\* a check that takes a signature of the hash by any key pair
is_signed_by_anyone(tx, public_key) == tx.signature.msg = tx.hash

is_signed(tx, public_key) == verify(tx.signature, tx.hash, public_key)


\* a check that looks at the block and the transaction cited only
is_funded_at_any_amount(tx) ==
    LET funded_transactions == get_user_tx_positions(tx.sender)
    IN  \E i \in 1..Len(funded_transactions) :
           /\ funded_transactions[i].block = tx.locations.block
           /\ funded_transactions[i].tx = tx.locations.tx

is_funded(tx) ==
    LET funded_transactions == get_user_tx_positions(tx.sender)
    IN  \E i \in 1..Len(funded_transactions) :
           funded_transactions[i] = tx.locations

\* a check that lets a transaction pay out less than it cites
is_all_spent_at_most(tx) == tx.locations.amount >= SumValues(tx.receivers)

is_all_spent(tx) == tx.locations.amount = SumValues(tx.receivers)

\* a check that forgets the coins already spent
consumed_previous_ignoring_spent(tx) ==
    ~(tx.locations.amount <= received_coins(tx.sender, tx.locations))

consumed_previous(tx) ==
    ~(tx.locations.amount
         <= received_coins(tx.sender, tx.locations)
              - spent_coins(tx.sender, tx.locations))

\* the outcome of validate_tx: the transaction itself, an error message, or
\* an exception raised while the checks are evaluated
validate_tx(tx, public_key) ==
    IF received_coins_raises(tx.sender, tx.locations) # ""
    THEN [raised |-> received_coins_raises(tx.sender, tx.locations)]
    ELSE IF /\ is_correct_hash(tx)
            /\ is_signed(tx, public_key)
            /\ is_funded(tx)
            /\ is_all_spent(tx)
            /\ ~consumed_previous(tx)
         THEN [returned |-> tx]
         ELSE [err_msg |->
                 IF ~is_correct_hash(tx) THEN "hash is invalid!"
                 ELSE IF ~is_signed(tx, public_key) THEN "signature is invalid!"
                 ELSE IF ~is_funded(tx) THEN "the coins were not created before!"
                 ELSE IF ~is_all_spent(tx)
                      THEN "the amounts of input and output coins do not match!"
                      ELSE "double spending!"]

(***************************************************************************)
(* Inputs of the ledger operations                                         *)
(***************************************************************************)
\* the amounts of coins named in the transactions submitted
Amounts == {1, 2}

\* receivers dicts: some of the users, each with an amount, at most the
\* largest amount in all
ReceiverDicts ==
    {r \in UNION {[D -> Amounts] : D \in SUBSET UserAddresses} :
        SumValues(r) <= 2}

\* the receivers Scrooge creates coins for
MintChoices == {[a \in {"addrA"} |-> 2],
                [a \in {"addrA", "addrB"} |-> IF a = "addrA" THEN 1 ELSE 2]}

\* the locations a submitted transaction may name: the minted sentinel, or a
\* block, a transaction and an amount (block MaxChain is never in the chain)
Locations ==
    {Minted} \cup [block : 0..MaxChain, tx : 0..1, amount : Amounts]

\* the positions where address is funded, as a set
FundedSet(address) ==
    {get_user_tx_positions(address)[i] :
        i \in 1..Len(get_user_tx_positions(address))}

\* a transaction assembled by hand: signer hashes and signs a body naming
\* any sender; with stale, locations.amount was raised after hashing
Submitted(sender, locations, receivers, signer, stale) ==
    LET body == [sender |-> sender, locations |-> locations,
                 receivers |-> receivers]
        hash == create_hash(body)
        tx == Tx(sender, locations, receivers, hash, sign(hash, signer))
    IN  IF stale
        THEN [tx EXCEPT !.locations.amount = locations.amount + 1]
        ELSE tx

(***************************************************************************)
(* The ledger: ScroogeCoin                                                 *)
(***************************************************************************)
RECURSIVE SealedCount(_)
SealedCount(blocks) ==
    IF blocks = <<>> THEN 0
    ELSE Len(Head(blocks).transactions) + SealedCount(Tail(blocks))

\* the transactions the ledger holds
TxCount == SealedCount(chain) + Len(current_transactions)

Returned(op, ret, msg) == [op |-> op, ret |-> ret, msg |-> msg]

LedgerInit ==
    /\ chain = <<>>
    /\ current_transactions = <<>>
    /\ last = Returned("__init__", "None", "")

\* ScroogeCoin.create_coins(receivers)
create_coins(receivers) ==
    LET body == [sender |-> address_of(ScroogeKey), locations |-> Minted,
                 receivers |-> receivers]
        tx == Tx(body.sender, body.locations, body.receivers,
                 create_hash(body), sign(create_hash(body), ScroogeKey))
    IN  /\ TxCount < MaxTx
        /\ current_transactions' = Append(current_transactions, tx)
        /\ last' = Returned("create_coins", "None", "")
        /\ UNCHANGED chain

\* a block that always names the hash of -1 as its previous hash
new_block_unlinked ==
    [previous_hash |-> create_hash(JsonInt(-1)),
     index |-> Len(chain),
     transactions |-> current_transactions]

\* the block mine() builds, before it is hashed and signed
new_block ==
    [previous_hash |-> IF Len(chain) # 0
                       THEN chain[Len(chain)].hash
                       ELSE create_hash(JsonInt(-1)),
     index |-> Len(chain),
     transactions |-> current_transactions]

\* the block with its hash and Scrooge's signature of the hash
sealed_block(block) ==
    [previous_hash |-> block.previous_hash,
     index |-> block.index,
     transactions |-> block.transactions,
     hash |-> create_hash(block),
     signature |-> sign(create_hash(block), ScroogeKey)]

\* a mine() that leaves the pending transactions in place
mine_keeps_transactions ==
    /\ Len(chain) < MaxChain
    /\ chain' = Append(chain, sealed_block(new_block))
    /\ last' = Returned("mine", "block", "")
    /\ UNCHANGED current_transactions

\* ScroogeCoin.mine()
mine ==
    /\ Len(chain) < MaxChain
    /\ chain' = Append(chain, sealed_block(new_block))
    /\ current_transactions' = <<>>
    /\ last' = Returned("mine", "block", "")

\* an add_tx that appends the transaction whatever validate_tx answers
add_tx_unconditional(tx, public_key) ==
    LET tx_validated == validate_tx(tx, public_key)
        is_valid == ([returned |-> tx] = tx_validated)
    IN  IF "raised" \in DOMAIN tx_validated
        THEN /\ last' = Returned("add_tx", "raised", tx_validated.raised)
             /\ UNCHANGED <<chain, current_transactions>>
        ELSE /\ TxCount < MaxTx
             /\ current_transactions' = Append(current_transactions, tx)
             /\ last' = Returned("add_tx", IF is_valid THEN "True" ELSE "False",
                                 IF is_valid THEN "" ELSE tx_validated.err_msg)
             /\ UNCHANGED chain

\* ScroogeCoin.add_tx(tx, public_key)
add_tx(tx, public_key) ==
    LET tx_validated == validate_tx(tx, public_key)
        is_valid == ([returned |-> tx] = tx_validated)
    IN  IF "raised" \in DOMAIN tx_validated
        THEN /\ last' = Returned("add_tx", "raised", tx_validated.raised)
             /\ UNCHANGED <<chain, current_transactions>>
        ELSE IF is_valid
        THEN /\ TxCount < MaxTx
             /\ current_transactions' = Append(current_transactions, tx)
             /\ last' = Returned("add_tx", "True", "")
             /\ UNCHANGED chain
        ELSE /\ last' = Returned("add_tx", "False", tx_validated.err_msg)
             /\ UNCHANGED <<chain, current_transactions>>

\* Miner.__init__
MinerInit ==
    /\ heap = <<>>
    /\ Miner_chain = <<>>
    /\ mining = 0

\* a name of __main__ that is not bound yet
Unbound == [unbound |-> TRUE]

\* no call of the retarget functions has been made
RetargetIdle ==
    /\ args = <<>>
    /\ new_target = Unbound
    /\ new_bits = Unbound

\* no thread is inside ScroogeCoin.mine or ScroogeCoin.add_tx
NoCall == [pc |-> "idle"]

ThreadsIdle ==
    /\ sealing = NoCall
    /\ adding = NoCall
    /\ accepted = <<>>

Init == LedgerInit /\ MinerInit /\ RetargetIdle /\ ThreadsIdle

CreateCoins ==
    /\ \E receivers \in MintChoices : create_coins(receivers)
    /\ UNCHANGED <<minerVars, retargetVars, threadVars>>

Mine == mine /\ UNCHANGED <<minerVars, retargetVars, threadVars>>

\* the other user
Other(user) == CHOOSE k \in UserKeys : k # user

\* receivers that pay the whole amount to one address
PayAll(to, amount) == [a \in {to} |-> amount]

\* a user spends a position where the user is funded, to any receivers
AddTxSent ==
    \E user \in UserKeys :
        \E locations \in FundedSet(address_of(user)),
           receivers \in ReceiverDicts :
            /\ add_tx(send_tx(user, receivers, locations), user)
            /\ UNCHANGED <<minerVars, retargetVars, threadVars>>

\* a user names any location and pays its whole amount to the other user
AddTxAnyLocation ==
    \E user \in UserKeys, locations \in Locations :
        /\ add_tx(send_tx(user, PayAll(address_of(Other(user)),
                                       locations.amount),
                          locations), user)
        /\ UNCHANGED <<minerVars, retargetVars, threadVars>>

\* a user names the other user's address as sender of a position where that
\* address is funded, pays the whole amount to themselves, signs with their
\* own key pair and hands in their own public key
AddTxImpersonated ==
    \E signer \in UserKeys :
        \E locations \in FundedSet(address_of(Other(signer))) :
            /\ add_tx(Submitted(address_of(Other(signer)), locations,
                                PayAll(address_of(signer), locations.amount),
                                signer, FALSE),
                      signer)
            /\ UNCHANGED <<minerVars, retargetVars, threadVars>>

\* a user's payment of a funded position whose signature was replaced by
\* somebody else's (test 4 of main), or whose locations.amount was changed
\* after hashing and signing, or both
AddTxForged ==
    \E user \in UserKeys, stale \in BOOLEAN :
        \E signer \in IF stale THEN Keys ELSE Keys \ {user} :
            \E locations \in FundedSet(address_of(user)) :
                /\ add_tx(Submitted(address_of(user), locations,
                                    PayAll(address_of(Other(user)),
                                           locations.amount),
                                    signer, stale), user)
                /\ UNCHANGED <<minerVars, retargetVars, threadVars>>

Next ==
    \/ CreateCoins
    \/ Mine
    \/ AddTxSent
    \/ AddTxAnyLocation
    \/ AddTxImpersonated
    \/ AddTxForged

Spec == Init /\ [][Next]_vars

(***************************************************************************)
(* Properties of the ledger                                                *)
(***************************************************************************)
\* the transactions sealed in the chain, in order
RECURSIVE Sealed(_)
Sealed(blocks) ==
    IF blocks = <<>> THEN <<>>
    ELSE Head(blocks).transactions \o Sealed(Tail(blocks))

\* the transactions the ledger holds, sealed or pending
Stored == Sealed(chain) \o current_transactions

\* the ones add_tx accepted: create_coins makes the minted ones
AcceptedStored == SelectSeq(Stored, LAMBDA tx : tx.locations # Minted)

\* the (block, tx) positions of the chain
Positions ==
    {<<b, t>> \in (0..(Len(chain) - 1)) \X (0..(MaxTx - 1)) :
        t < Len(chain[b + 1].transactions)}

\* what the accepted transactions of sender claim of position <<b, t>>
Claimed(txs, sender, b, t) ==
    LET hits == SelectSeq(txs, LAMBDA tx : /\ tx.sender = sender
                                           /\ tx.locations.block = b
                                           /\ tx.locations.tx = t)
    IN  SumSeq([i \in 1..Len(hits) |-> hits[i].locations.amount])

\* C1: for every sender and every (block, tx) location, the amounts of the
\* accepted transactions (pending or sealed) from that sender that cite the
\* location add up to no more than the sender received there
C1_DoubleSpendBound ==
    \A p \in Positions :
        \A sender \in DOMAIN chain[p[1] + 1].transactions[p[2] + 1].receivers :
            Claimed(AcceptedStored, sender, p[1], p[2])
                <= chain[p[1] + 1].transactions[p[2] + 1].receivers[sender]

\* C2: an accepted transaction is signed by the key pair whose address is
\* its sender: no transaction naming somebody else's address is accepted
C2_OwnerSigned ==
    \A i \in 1..Len(AcceptedStored) :
        /\ address_of(AcceptedStored[i].signature.signer)
              = AcceptedStored[i].sender
        /\ AcceptedStored[i].signature.msg = AcceptedStored[i].hash

\* C3: every transaction in the chain or the pending list is a minted one
\* from Scrooge or pays out exactly the amount of its locations
C3_Conservation ==
    \A i \in 1..Len(Stored) :
        \/ /\ Stored[i].locations = Minted
           /\ Stored[i].sender = address_of(ScroogeKey)
        \/ SumValues(Stored[i].receivers) = Stored[i].locations.amount

\* C3 witness: add_tx has just accepted a payment, and it conserves
C3_Witness ==
    /\ last.op = "add_tx" /\ last.ret = "True"
    /\ current_transactions[Len(current_transactions)].locations # Minted
    /\ SumValues(current_transactions[Len(current_transactions)].receivers) = 2

\* sender has a sealed transaction that cites position <<b, t>>
SealedSpend(sender, b, t) ==
    \E i \in 1..Len(Sealed(chain)) :
        /\ Sealed(chain)[i].sender = sender
        /\ Sealed(chain)[i].locations.block = b
        /\ Sealed(chain)[i].locations.tx = t

\* the transactions, correctly hashed and signed, that cite with any amount
\* and any receivers a position where their sender received a positive
\* amount and of which the sender already has a spend sealed
Respends ==
    {r \in [sender : Addresses, position : Positions, amount : Amounts,
            receivers : ReceiverDicts, signer : Keys] :
        /\ SealedSpend(r.sender, r.position[1], r.position[2])
        /\ received_coins_raises(r.sender,
               [block |-> r.position[1], tx |-> r.position[2],
                amount |-> r.amount]) = ""
        /\ received_coins(r.sender,
               [block |-> r.position[1], tx |-> r.position[2],
                amount |-> r.amount]) > 0}

\* what validate_tx answers to one of them, handed in with the signer's key
RespendAnswer(r) ==
    validate_tx(Submitted(r.sender,
                          [block |-> r.position[1], tx |-> r.position[2],
                           amount |-> r.amount],
                          r.receivers, r.signer, FALSE),
                r.signer)

\* C4 as claimed: once a spend of a position is sealed, every later correctly
\* hashed and signed transaction of the same sender citing the position is
\* rejected with "double spending!", whatever its receivers
C4_RespendIsDoubleSpend ==
    \A r \in Respends : RespendAnswer(r) = [err_msg |-> "double spending!"]

\* C4 as amended: such a transaction is always rejected; the reason is
\* "double spending!" when it cites the amount received and pays out that
\* amount, the amounts mismatch when it cites the amount received and pays
\* out another, and unfunded coins when it cites another amount
C4_RespendRejected ==
    \A r \in Respends :
        LET received ==
                chain[r.position[1] + 1].transactions[r.position[2] + 1]
                    .receivers[r.sender]
        IN  RespendAnswer(r) = [err_msg |->
                IF r.amount # received
                THEN "the coins were not created before!"
                ELSE IF SumValues(r.receivers) # r.amount
                     THEN "the amounts of input and output coins do not match!"
                     ELSE "double spending!"]

\* C4 witness: add_tx has answered "double spending!" to the sender of a
\* sealed spend
C4_Witness ==
    /\ last.op = "add_tx" /\ last.ret = "False"
    /\ last.msg = "double spending!"
    /\ \E p \in Positions, sender \in UserAddresses :
          SealedSpend(sender, p[1], p[2])

\* C5: add_tx never raises
C5_AddTxNeverRaises == ~(last.op = "add_tx" /\ last.ret = "raised")

\* C6: add_tx leaves the chain alone; it returns True exactly when it has
\* appended one transaction, which validate_tx accepts, to the end of the
\* pending list, and otherwise leaves the pending list alone
C6_AddTxEffect ==
    [][last'.op = "add_tx" =>
         /\ chain' = chain
         /\ IF last'.ret = "True"
            THEN /\ Len(current_transactions') = Len(current_transactions) + 1
                 /\ SubSeq(current_transactions', 1, Len(current_transactions))
                      = current_transactions
                 /\ \E public_key \in Keys :
                       LET tx == current_transactions'
                                    [Len(current_transactions')]
                       IN  validate_tx(tx, public_key) = [returned |-> tx]
            ELSE current_transactions' = current_transactions]_vars

\* C6 witness: add_tx has returned True with the transaction appended behind
\* an earlier pending one
C6_Witness ==
    /\ last.op = "add_tx" /\ last.ret = "True"
    /\ Len(current_transactions) = 2

\* C7: mine appends exactly one block, with the index, the previous hash and
\* the pending transactions the chain and the pending list had before, and
\* empties the pending list
C7_MineEffect ==
    [][last'.op = "mine" =>
         /\ Len(chain') = Len(chain) + 1
         /\ SubSeq(chain', 1, Len(chain)) = chain
         /\ chain'[Len(chain')].index = Len(chain)
         /\ chain'[Len(chain')].previous_hash
               = IF chain = <<>> THEN create_hash(JsonInt(-1))
                 ELSE chain[Len(chain)].hash
         /\ chain'[Len(chain')].transactions = current_transactions
         /\ current_transactions' = <<>>]_vars

\* C7 witness: mine has sealed an empty pending list on an empty chain, and
\* a pending list of two on top of it
C7_Witness ==
    /\ last.op = "mine"
    /\ Len(chain) = 2
    /\ chain[1].transactions = <<>>
    /\ Len(chain[2].transactions) = 2

\* C8: the block at position i of the chain has index i, and every block but
\* the first names the hash of the block before it
C8_LedgerLinkage ==
    \A i \in 1..Len(chain) :
        /\ chain[i].index = i - 1
        /\ i > 1 => chain[i].previous_hash = chain[i - 1].hash

\* C8 witness: a chain of two blocks with transactions
C8_Witness ==
    /\ Len(chain) = 2
    /\ chain[1].transactions # <<>>
    /\ chain[2].transactions # <<>>

(***************************************************************************)
(* The proof-of-work miner: class Miner                                    *)
(* Python's integers are unbounded: a natural number beyond the range of   *)
(* the model's integers is the sequence of its base-256 digits, the most   *)
(* significant first and not 0; the number 0 is the empty sequence.        *)
(***************************************************************************)
\* most block dicts created
MaxBlocks == 3
\* longest Miner.chain explored
MaxMined == 3
\* largest nonce tried
MaxNonce == 4

\* the bits of the genesis block, 0x1EFFFFFF
GenesisBits == 520093695

\* the bits handed to make_empty_block: the genesis bits, a lower and a
\* higher target, and a zero mantissa; the exponent is at least 3
BitsChoices == {GenesisBits, \h1E00FFFF, \h20FFFFFF, \h1E000000}

\* the readings of the clock: the time of a block only enters its hash
Times == {0}

\* str(datetime.datetime.now())
str_datetime(now) == [str |-> now]

RECURSIVE ToDigits(_)
ToDigits(n) ==
    IF n = 0 THEN <<>> ELSE Append(ToDigits(n \div 256), n % 256)

Zeros(k) == [i \in 1..k |-> 0]

\* a < b
Less(a, b) ==
    \/ Len(a) < Len(b)
    \/ /\ Len(a) = Len(b)
       /\ \E i \in 1..Len(a) :
             /\ a[i] < b[i]
             /\ \A j \in 1..(i - 1) : a[j] = b[j]

\* get_target_from_bits(bits), for bits below 2^31 with part_1 >= 3
get_target_from_bits(bits) ==
    LET part_1 == (bits \div 16777216) % 256
        part_2 == bits % 16777216
    IN  IF part_2 = 0 THEN <<>> ELSE ToDigits(part_2) \o Zeros(part_1 - 3)

\* Miner.calculate_hash(block): the digest of the block's JSON document
calculate_hash(block) == [sha256 |-> block]

\* the digests fall into four classes by the document hashed
RECURSIVE sha256_class(_)
sha256_class(document) ==
    (document.nonce + document.index + document.time.str + document.bits
        + (IF "json_int" \in DOMAIN document.previous_hash
           THEN document.previous_hash.json_int
           ELSE sha256_class(document.previous_hash.sha256))
        + (IF "hash" \in DOMAIN document THEN 1 ELSE 0)) % 4

\* int(hash_of_block, 16): a number of 28 bytes, a number of 30 bytes, the
\* target of the genesis bits, or a number of 32 bytes
int_16(hash) ==
    CASE sha256_class(hash.sha256) = 0 -> <<1>> \o Zeros(27)
      [] sha256_class(hash.sha256) = 1 -> <<128>> \o Zeros(29)
      [] sha256_class(hash.sha256) = 2 -> <<255, 255, 255>> \o Zeros(27)
      [] OTHER -> <<255, 255, 255, 255>> \o Zeros(28)

\* the blocks Miner.chain refers to, in order
MinerBlocks == [i \in 1..Len(Miner_chain) |-> heap[Miner_chain[i]]]

\* Miner.genesis_block()
genesis_block(now) ==
    LET block == [previous_hash |-> JsonInt(0),
                  index |-> Len(Miner_chain),
                  transactions |-> <<>>,
                  bits |-> GenesisBits,
                  nonce |-> 0,
                  time |-> str_datetime(now)]
    IN  /\ mining = 0
        /\ Len(heap) < MaxBlocks
        /\ heap' = Append(heap, block)
        /\ last' = Returned("genesis_block", "block", "")
        /\ UNCHANGED <<Miner_chain, mining>>

\* the block make_empty_block builds on a chain that is not empty
empty_block(bits, now) ==
    [previous_hash |-> MinerBlocks[Len(Miner_chain)].hash,
     index |-> Len(Miner_chain),
     transactions |-> <<>>,
     bits |-> bits,
     nonce |-> 0,
     time |-> str_datetime(now)]

\* Miner.make_empty_block(bits); self.chain[-1] raises on an empty chain
make_empty_block(bits, now) ==
    /\ mining = 0
    /\ IF Miner_chain = <<>>
       THEN /\ last' = Returned("make_empty_block", "raised", "IndexError")
            /\ UNCHANGED <<heap, Miner_chain, mining>>
       ELSE /\ Len(heap) < MaxBlocks
            /\ heap' = Append(heap, empty_block(bits, now))
            /\ last' = Returned("make_empty_block", "block", "")
            /\ UNCHANGED <<Miner_chain, mining>>

\* a loop that also stops on a hash equal to the target
mine_continues_above(block) ==
    Less(get_target_from_bits(block.bits), int_16(calculate_hash(block)))

\* the condition of the loop of Miner.mine:
\* int(hash_of_block, 16) >= target
mine_continues(block) ==
    ~Less(int_16(calculate_hash(block)), get_target_from_bits(block.bits))

\* Miner.mine runs a loop that need not end, so it is taken turn by turn:
\* the call, each turn of the loop, and the return.  The program has one
\* thread: no other call starts while mining # 0.
\* Miner.mine(block) is called with a block created before, mined or not
mine_call(block) ==
    /\ mining = 0
    /\ block \in 1..Len(heap)
    /\ mining' = block
    /\ UNCHANGED <<heap, Miner_chain, last>>

\* a turn of the loop that leaves the nonce as it is
mine_loop_keeping_the_nonce ==
    /\ mining # 0
    /\ mine_continues(heap[mining])
    /\ heap[mining].nonce < MaxNonce
    /\ UNCHANGED <<heap, Miner_chain, mining, last>>

\* one turn of the loop: the nonce of the block is raised by one
mine_loop ==
    /\ mining # 0
    /\ mine_continues(heap[mining])
    /\ heap[mining].nonce < MaxNonce
    /\ heap' = [heap EXCEPT ![mining].nonce = @ + 1]
    /\ UNCHANGED <<Miner_chain, mining, last>>

\* block with block['hash'] = hash_of_block
with_hash(block, hash_of_block) ==
    [key \in DOMAIN block \cup {"hash"} |->
        IF key = "hash" THEN hash_of_block ELSE block[key]]

\* the loop is left: the hash is stored in the block, the block is appended
\* to the chain and returned
mine_return ==
    /\ mining # 0
    /\ ~mine_continues(heap[mining])
    /\ Len(Miner_chain) < MaxMined
    /\ heap' = [heap EXCEPT
                  ![mining] = with_hash(@, calculate_hash(heap[mining]))]
    /\ Miner_chain' = Append(Miner_chain, mining)
    /\ mining' = 0
    /\ last' = Returned("Miner.mine", "block", "")

GenesisBlock ==
    /\ \E now \in Times : genesis_block(now)
    /\ UNCHANGED <<ledgerVars, retargetVars, threadVars>>

MakeEmptyBlock ==
    /\ \E bits \in BitsChoices, now \in Times : make_empty_block(bits, now)
    /\ UNCHANGED <<ledgerVars, retargetVars, threadVars>>

MineCall ==
    /\ \E block \in 1..MaxBlocks : mine_call(block)
    /\ UNCHANGED <<ledgerVars, retargetVars, threadVars>>

MineLoop == mine_loop /\ UNCHANGED <<ledgerVars, retargetVars, threadVars>>

MineReturn == mine_return /\ UNCHANGED <<ledgerVars, retargetVars, threadVars>>

MinerNext ==
    \/ GenesisBlock
    \/ MakeEmptyBlock
    \/ MineCall
    \/ MineLoop
    \/ MineReturn

SpecMiner == Init /\ [][MinerNext]_vars

(***************************************************************************)
(* Properties of the miner                                                 *)
(***************************************************************************)
\* C9: the number the stored hash of every block of Miner.chain stands for is
\* strictly below the target its bits expand to
C9_HashBelowTarget ==
    \A i \in 1..Len(Miner_chain) :
        Less(int_16(MinerBlocks[i].hash),
             get_target_from_bits(MinerBlocks[i].bits))

\* C9 witness: the chain holds a block under the genesis bits and a block
\* under the lower target, and the loop ran for both
C9_Witness ==
    \E i, j \in 1..Len(Miner_chain) :
        /\ MinerBlocks[i].bits = GenesisBits
        /\ MinerBlocks[i].nonce > 0
        /\ MinerBlocks[j].bits = \h1E00FFFF
        /\ MinerBlocks[j].nonce > 0

\* C10: whatever the order of the calls, the block at position i
\* of Miner.chain has index i, the first block has the previous hash of the
\* genesis block, and every other block names the hash of the block before
C10_MinerLinkage ==
    \A i \in 1..Len(Miner_chain) :
        /\ MinerBlocks[i].index = i - 1
        /\ i = 1 => MinerBlocks[i].previous_hash = JsonInt(0)
        /\ i > 1 => MinerBlocks[i].previous_hash = MinerBlocks[i - 1].hash

\* the calls so far created every block on the chain it extends and mined it
\* once: no block is in the chain twice or handed to mine again, at most one
\* created block is not in the chain, and genesis_block was called on the
\* empty chain
CreatedThenMined ==
    /\ \A i, j \in 1..Len(Miner_chain) :
          i # j => Miner_chain[i] # Miner_chain[j]
    /\ Cardinality({block \in 1..Len(heap) :
                       \A i \in 1..Len(Miner_chain) :
                          Miner_chain[i] # block}) <= 1
    /\ last.op = "genesis_block" => Miner_chain = <<>>
    /\ mining # 0 => \A i \in 1..Len(Miner_chain) : Miner_chain[i] # mining

\* what the miner does keep: as long as every block is created on the chain
\* it extends and mined once before the next is created, as the main program
\* does, the chain is linked
MinerLinkageWhenCreatedThenMined ==
    [](CreatedThenMined) => [](C10_MinerLinkage)

\* the fields of a block other than its hash
without_hash(block) ==
    [key \in DOMAIN block \ {"hash"} |-> block[key]]

\* C11: between the calls, the stored hash of every block of Miner.chain is
\* the hash of the other fields of the block as it is stored
C11_MinerStoredHash ==
    mining = 0 =>
        \A i \in 1..Len(Miner_chain) :
            MinerBlocks[i].hash = calculate_hash(without_hash(MinerBlocks[i]))

(***************************************************************************)
(* Further properties of the ledger                                        *)
(***************************************************************************)
\* the transactions with a correct hash that cite a position where their
\* sender is funded and pay out the amount cited, with a signature that does
\* not verify against public_key: made with another key pair, or made with
\* the right one over another hash
ForgedFor(public_key) ==
    {Tx(body.sender, body.locations, body.receivers, create_hash(body),
        IF forger = public_key
        THEN sign(create_hash(JsonInt(-1)), forger)
        ELSE sign(create_hash(body), forger)) :
        body \in {b \in [sender : Addresses,
                         locations : UNION {FundedSet(a) : a \in Addresses},
                         receivers : ReceiverDicts] :
                     /\ b.locations \in FundedSet(b.sender)
                     /\ SumValues(b.receivers) = b.locations.amount},
        forger \in Keys}

\* C12: validate_tx answers "signature is invalid!" to every such
\* transaction, and add_tx returns False when that is the answer
C12_ForgedRejected ==
    /\ \A public_key \in Keys :
          \A tx \in ForgedFor(public_key) :
              validate_tx(tx, public_key)
                 = [err_msg |-> "signature is invalid!"]
    /\ (last.op = "add_tx" /\ last.msg = "signature is invalid!")
          => last.ret = "False"

\* C12 witness: add_tx has rejected a forged transaction, which is not in
\* the pending list
C12_Witness ==
    /\ last.op = "add_tx" /\ last.ret = "False"
    /\ last.msg = "signature is invalid!"
    /\ \E public_key \in Keys : ForgedFor(public_key) # {}
    /\ \A public_key \in Keys :
          \A tx \in ForgedFor(public_key) :
              \A i \in 1..Len(current_transactions) :
                  current_transactions[i] # tx

\* the transactions a user made with send_tx on a funded position, paying
\* the whole amount to the other user, of which one of sender, locations and
\* receivers was changed afterwards
Tampered ==
    UNION {LET tx == send_tx(user, PayAll(address_of(Other(user)),
                                          locations.amount), locations)
           IN  {[tx EXCEPT !.sender = sender] :
                   sender \in Addresses \ {tx.sender}}
               \cup {[tx EXCEPT !.locations = other] :
                        other \in Locations \ {tx.locations}}
               \cup {[tx EXCEPT !.receivers = receivers] :
                        receivers \in ReceiverDicts \ {tx.receivers}} :
           user \in UserKeys,
           locations \in UNION {FundedSet(a) : a \in UserAddresses}}

\* C13: validate_tx answers "hash is invalid!" to every transaction changed
\* after it was hashed, whoever's public key comes with it
C13_TamperedRejected ==
    \A tx \in Tampered, public_key \in Keys :
        validate_tx(tx, public_key) = [err_msg |-> "hash is invalid!"]

(***************************************************************************)
(* The compact-target codec and the retarget of proof_of_work.py           *)
(*                                                                         *)
(* Targets are the digit sequences of get_target_from_bits; bits are       *)
(* integers below 2^31, so their exponent byte is at most 127.             *)
(***************************************************************************)

\* the value of at most three digits
RECURSIVE FromDigits(_)
FromDigits(digits) ==
    IF digits = <<>> THEN 0
    ELSE FromDigits(SubSeq(digits, 1, Len(digits) - 1)) * 256
             + digits[Len(digits)]

\* len(hex(target)[2:]) of a target that is not negative
hex_length(target) ==
    IF target = <<>> THEN 1
    ELSE 2 * Len(target) - (IF target[1] < 16 THEN 1 ELSE 0)

\* target >> (8 * count) for count >= 0
shift_right(target, count) ==
    IF count >= Len(target) THEN <<>>
    ELSE SubSeq(target, 1, Len(target) - count)

\* an encoder that rounds the bit length down to whole bytes
get_bits_from_target_rounding_down(target) ==
    LET length == hex_length(target) * 4
        bitlength == length - (length % 8)
        part_1 == bitlength \div 8
    IN  IF part_1 - 3 < 0 THEN [raised |-> "ValueError"]
        ELSE [returned |->
                 part_1 * 16777216
                     + FromDigits(shift_right(target, part_1 - 3))]

\* an encoder that shifts one byte more and so keeps two bytes
get_bits_from_target_keeping_two_bytes(target) ==
    LET length == hex_length(target) * 4
        bitlength == IF length % 8 # 0 THEN length + (8 - (length % 8))
                     ELSE length
        part_1 == bitlength \div 8
    IN  IF part_1 - 3 < 0 THEN [raised |-> "ValueError"]
        ELSE [returned |->
                 part_1 * 16777216
                     + FromDigits(shift_right(target, part_1 - 2))]

\* get_bits_from_target(target): the bits, or the ValueError of a negative
\* shift count
get_bits_from_target(target) ==
    LET length == hex_length(target) * 4
        bitlength == IF length % 8 # 0 THEN length + (8 - (length % 8))
                     ELSE length
        part_1 == bitlength \div 8
    IN  IF part_1 - 3 < 0 THEN [raised |-> "ValueError"]
        ELSE [returned |->
                 part_1 * 16777216
                     + FromDigits(shift_right(target, part_1 - 3))]

\* the digits of digits * factor + carry, for a factor below 2^22
RECURSIVE MultiplyCarry(_, _, _)
MultiplyCarry(digits, factor, carry) ==
    IF digits = <<>> THEN ToDigits(carry)
    ELSE LET product == digits[Len(digits)] * factor + carry
         IN  Append(MultiplyCarry(SubSeq(digits, 1, Len(digits) - 1), factor,
                                  product \div 256),
                    product % 256)

\* prev_target * time_span, for a time_span that is not negative
Multiply(digits, factor) ==
    IF factor = 0 THEN <<>> ELSE MultiplyCarry(digits, factor, 0)

\* long division by a divisor below 2^22: the quotient, with leading zeros,
\* and the remainder
RECURSIVE Divide(_, _)
Divide(digits, divisor) ==
    IF digits = <<>> THEN [quotient |-> <<>>, remainder |-> 0]
    ELSE LET front == Divide(SubSeq(digits, 1, Len(digits) - 1), divisor)
             number == front.remainder * 256 + digits[Len(digits)]
         IN  [quotient |-> Append(front.quotient, number \div divisor),
              remainder |-> number % divisor]

\* the digits without their leading zeros
Normal(digits) ==
    IF \A i \in 1..Len(digits) : digits[i] = 0 THEN <<>>
    ELSE LET first == CHOOSE i \in 1..Len(digits) :
                          /\ digits[i] # 0
                          /\ \A j \in 1..(i - 1) : digits[j] = 0
         IN  SubSeq(digits, first, Len(digits))

\* the binary digits of a number, without leading zeros
ToBits(digits) ==
    Normal([i \in 1..(8 * Len(digits)) |->
               (digits[((i - 1) \div 8) + 1] \div (2 ^ (7 - ((i - 1) % 8))))
                   % 2])

\* the number with these binary digits
FromBits(binary) ==
    LET padded == Zeros((8 - (Len(binary) % 8)) % 8) \o binary
    IN  [i \in 1..(Len(padded) \div 8) |->
            SumSeq([j \in 1..8 |-> padded[8 * (i - 1) + j] * (2 ^ (8 - j))])]

\* binary digits plus one
Increment(binary) ==
    IF \A i \in 1..Len(binary) : binary[i] = 1
    THEN <<1>> \o Zeros(Len(binary))
    ELSE LET low == CHOOSE i \in 1..Len(binary) :
                        /\ binary[i] = 0
                        /\ \A j \in (i + 1)..Len(binary) : binary[j] = 1
         IN  [i \in 1..Len(binary) |->
                 IF i < low THEN binary[i] ELSE IF i = low THEN 1 ELSE 0]

\* the binary digits a float keeps
Precision == 53
\* the binary digits of the fraction that are worked out: 7 bytes of them
FractionBits == Precision + 3

\* int(dividend / divisor): the true division of two ints gives the float
\* nearest to the quotient, ties to even, and int() cuts its fraction off;
\* for a dividend that is not negative and a divisor from 1 to 2^22
int_of_true_division(dividend, divisor) ==
    LET division == Divide(dividend \o Zeros(FractionBits \div 8), divisor)
        digits == ToBits(division.quotient)
        whole == Len(digits) - FractionBits
        mantissa == SubSeq(digits, 1, Precision)
        half == digits[Precision + 1] = 1
        more == \/ \E i \in (Precision + 2)..Len(digits) : digits[i] = 1
                \/ division.remainder # 0
        rounded == IF half /\ (more \/ mantissa[Precision] = 1)
                   THEN Increment(mantissa) ELSE mantissa
    IN  IF whole <= 0 THEN <<>>
        ELSE IF whole >= Precision
             THEN FromBits(rounded \o Zeros(whole - Precision))
             ELSE FromBits(SubSeq(rounded, 1,
                                  Len(rounded) - (Precision - whole)))

\* the quarters of a second stand for the microseconds of a datetime
TicksPerSecond == 4

\* read_str_time(str_time): the datetime, or the ValueError of strptime for
\* a string without the fraction that '%f' asks for (str() of a datetime
\* leaves it out when the microseconds are zero)
read_str_time(str_time) ==
    IF str_time.str % TicksPerSecond = 0 THEN [raised |-> "ValueError"]
    ELSE [returned |-> str_time.str]

\* datetime_to_seconds(time) of a datetime: int(time.timestamp())
datetime_to_seconds(time) == time \div TicksPerSecond

\* a retarget in inverse proportion: prev_target * target_time / time_span
change_target_inverted(prev_bits, start_time, end_time, target_time) ==
    LET prev_target == get_target_from_bits(prev_bits)
        end == read_str_time(end_time)
        start == read_str_time(start_time)
        time_span == datetime_to_seconds(end.returned)
                        - datetime_to_seconds(start.returned)
    IN  IF "raised" \in DOMAIN end THEN end
        ELSE IF "raised" \in DOMAIN start THEN start
        ELSE IF time_span = 0 THEN [raised |-> "ZeroDivisionError"]
        ELSE [returned |->
                 int_of_true_division(Multiply(prev_target, target_time),
                                      time_span)]

\* change_target(prev_bits, start_time, end_time, target_time), for an
\* end_time that is not before the start_time and a target_time that is not
\* negative
change_target(prev_bits, start_time, end_time, target_time) ==
    LET prev_target == get_target_from_bits(prev_bits)
        end == read_str_time(end_time)
        start == read_str_time(start_time)
        time_span == datetime_to_seconds(end.returned)
                        - datetime_to_seconds(start.returned)
    IN  IF "raised" \in DOMAIN end THEN end
        ELSE IF "raised" \in DOMAIN start THEN start
        ELSE IF target_time = 0 THEN [raised |-> "ZeroDivisionError"]
        ELSE [returned |->
                 int_of_true_division(Multiply(prev_target, time_span),
                                      target_time)]

\* the bits handed to the retarget functions: exponents from 3, mantissas
\* with and without a leading zero byte, and the zero mantissa
BitsInputs ==
    {exponent * 16777216 + mantissa :
        exponent \in {3, 4, 9, 29, 30, 32},
        mantissa \in {0, 1, 255, 65535, 65536, 987700, 8388607, 8388608,
                      16777215}}

\* the times handed in, in ticks: the seconds 0, 0, 1, 1, 2, 3 and 7, one of
\* them without a fraction
TimeInputs == {1, 3, 4, 6, 9, 13, 29}

\* the desired timespans handed in
TargetTimeInputs == {0, 1, 2, 3, 7}

ArgsInputs ==
    {a \in [prev_bits : BitsInputs, start_time : TimeInputs,
            end_time : TimeInputs, target_time : TargetTimeInputs] :
        a.start_time <= a.end_time}

RetargetInit ==
    /\ LedgerInit
    /\ MinerInit
    /\ ThreadsIdle
    /\ args \in ArgsInputs
    /\ new_target = Unbound
    /\ new_bits = Unbound

\* target = get_target_from_bits(bits)
GetTargetFromBits ==
    /\ new_target' = [returned |-> get_target_from_bits(args.prev_bits)]
    /\ new_bits' = Unbound
    /\ last' = Returned("get_target_from_bits", "target", "")
    /\ UNCHANGED <<args, ledgerVars, minerVars, threadVars>>

\* target = change_target(bits, start_time, end_time, target_time)
ChangeTarget ==
    LET outcome == change_target(args.prev_bits,
                                 str_datetime(args.start_time),
                                 str_datetime(args.end_time),
                                 args.target_time)
    IN  /\ new_target' = outcome
        /\ new_bits' = Unbound
        /\ last' = IF "raised" \in DOMAIN outcome
                   THEN Returned("change_target", "raised", outcome.raised)
                   ELSE Returned("change_target", "new_target", "")
        /\ UNCHANGED <<args, ledgerVars, minerVars, threadVars>>

\* bits = get_bits_from_target(target)
GetBitsFromTarget ==
    /\ "returned" \in DOMAIN new_target
    /\ new_bits' = get_bits_from_target(new_target.returned)
    /\ last' = IF "raised" \in DOMAIN new_bits'
               THEN Returned("get_bits_from_target", "raised",
                             new_bits'.raised)
               ELSE Returned("get_bits_from_target", "bits", "")
    /\ UNCHANGED <<args, new_target, ledgerVars, minerVars, threadVars>>

RetargetNext ==
    \/ GetTargetFromBits
    \/ ChangeTarget
    \/ GetBitsFromTarget

SpecRetarget == RetargetInit /\ [][RetargetNext]_vars

(***************************************************************************)
(* Properties of the codec and the retarget                                *)
(***************************************************************************)
\* part_2 of the bits
mantissa_of(bits) == bits % 16777216

\* get_bits_from_target has been applied to the target of args.prev_bits
Recoded ==
    /\ last.op = "get_bits_from_target"
    /\ new_target = [returned |-> get_target_from_bits(args.prev_bits)]

Retargeted == last.op = "change_target" /\ last.ret = "new_target"

\* prev_target and time_span of change_target for the arguments
prev_target_of_args == get_target_from_bits(args.prev_bits)

time_span_of_args ==
    datetime_to_seconds(args.end_time) - datetime_to_seconds(args.start_time)

\* C15: a time_span above target_time gives a target strictly above
\* prev_target, one below target_time a target strictly below it
C15_StrictlyMonotone ==
    Retargeted =>
        /\ time_span_of_args > args.target_time
              => Less(prev_target_of_args, new_target.returned)
        /\ time_span_of_args < args.target_time
              => Less(new_target.returned, prev_target_of_args)

\* C15 as the code has it: a time_span above target_time never lowers the
\* target, and raises it when prev_target * (time_span - target_time) is at
\* least target_time; a time_span below target_time never raises it, and
\* lowers it unless prev_target is zero
C15_Monotone ==
    Retargeted =>
        /\ time_span_of_args > args.target_time
              => /\ ~Less(new_target.returned, prev_target_of_args)
                 /\ ~Less(Multiply(prev_target_of_args,
                                   time_span_of_args - args.target_time),
                          ToDigits(args.target_time))
                       => Less(prev_target_of_args, new_target.returned)
        /\ time_span_of_args < args.target_time
              => /\ ~Less(prev_target_of_args, new_target.returned)
                 /\ prev_target_of_args # <<>>
                       => Less(new_target.returned, prev_target_of_args)

\* C15 witness: a target too large for a float to hold exactly was raised
\* for a time_span above target_time
C15_Witness ==
    /\ Retargeted
    /\ time_span_of_args > args.target_time
    /\ Len(prev_target_of_args) >= 30
    /\ mantissa_of(args.prev_bits) = 16777215
    /\ args.target_time = 3
    /\ time_span_of_args = 7
    /\ Less(prev_target_of_args, new_target.returned)

\* both time strings of the arguments are read by read_str_time
TimesRead ==
    /\ "returned" \in DOMAIN read_str_time(str_datetime(args.start_time))
    /\ "returned" \in DOMAIN read_str_time(str_datetime(args.end_time))

\* C16: change_target called with a target_time of zero, and time strings it
\* can read, ends in a ConfigurationError and not in a division by zero
C16_ZeroTargetTimeRejected ==
    (last.op = "change_target" /\ args.target_time = 0 /\ TimesRead)
        => (last.ret = "raised" /\ last.msg = "ConfigurationError")

\* floor(prev_target * time_span / target_time) for the arguments
floor_of_args ==
    Normal(Divide(Multiply(prev_target_of_args, time_span_of_args),
                  args.target_time).quotient)

\* C17: what change_target returns for a positive target_time is the bits
\* that encode floor(prev_target * time_span / target_time)
C17_ReturnsBitsOfFloor ==
    (Retargeted /\ args.target_time > 0)
        => /\ "returned" \in DOMAIN get_bits_from_target(floor_of_args)
           /\ new_target.returned
                 = ToDigits(get_bits_from_target(floor_of_args).returned)

\* read as a statement about the target: what change_target returns is
\* floor(prev_target * time_span / target_time); the float of the true
\* division keeps 53 binary digits of a larger quotient, so this fails too
RetargetReturnsFloor ==
    (Retargeted /\ args.target_time > 0)
        => new_target.returned = floor_of_args

\* the quotient is exact as long as the product stays below 2^48
RetargetReturnsFloorWhenSmall ==
    (Retargeted /\ args.target_time > 0
        /\ Len(Multiply(prev_target_of_args, time_span_of_args)) <= 6)
        => new_target.returned = floor_of_args

(***************************************************************************)
(* Balances, reasons and the scan for spent coins                          *)
(***************************************************************************)
\* what show_user_balance(address) prints: the amounts at the funded
\* positions of the address minus the locations.amount of the transactions
\* of the chain it is the sender of
show_user_balance(address) ==
    LET funded_transactions == get_user_tx_positions(address)
        spent_transactions ==
            SelectSeq(Sealed(chain), LAMBDA old_tx : old_tx.sender = address)
        balance_in == SumSeq([i \in 1..Len(funded_transactions) |->
                                 funded_transactions[i].amount])
        balance_out == SumSeq([i \in 1..Len(spent_transactions) |->
                                  spent_transactions[i].locations.amount])
    IN  balance_in - balance_out

\* the balances of a set of addresses, added up
RECURSIVE TotalBalance(_)
TotalBalance(addresses) ==
    IF addresses = {} THEN 0
    ELSE LET address == CHOOSE a \in addresses : TRUE
         IN  show_user_balance(address) + TotalBalance(addresses \ {address})

\* the receiver amounts of the minted transactions of the chain, added up
MintedTotal ==
    LET minted == SelectSeq(Sealed(chain), LAMBDA tx : tx.locations = Minted)
    IN  SumSeq([i \in 1..Len(minted) |-> SumValues(minted[i].receivers)])

\* C18: the balances of all addresses, the one of Scrooge included, add up
\* to the receiver amounts of the minted transactions sealed in the chain
C18_ValueCreation == TotalBalance(Addresses) = MintedTotal

\* what the balances do add up to: one more for every minted transaction,
\* which show_user_balance counts as a claim of -1 by Scrooge
ValueCreationWithSentinel ==
    TotalBalance(Addresses)
        = MintedTotal
            + Len(SelectSeq(Sealed(chain), LAMBDA tx : tx.locations = Minted))

\* the transactions that can be handed to validate_tx: any sender, locations
\* and receivers, hashed and signed by any key pair, changed afterwards or
\* not
Submittable ==
    {Submitted(sender, locations, receivers, signer, stale) :
        sender \in Addresses, locations \in Locations,
        receivers \in ReceiverDicts, signer \in Keys, stale \in BOOLEAN}

\* the first of the five checks that fails for the transaction, "" when the
\* first four pass and the coin is not consumed
first_failing(tx, public_key) ==
    IF ~is_correct_hash(tx) THEN "hash is invalid!"
    ELSE IF ~is_signed(tx, public_key) THEN "signature is invalid!"
    ELSE IF ~is_funded(tx) THEN "the coins were not created before!"
    ELSE IF ~is_all_spent(tx)
         THEN "the amounts of input and output coins do not match!"
    ELSE IF consumed_previous(tx) THEN "double spending!"
    ELSE ""

\* C19: for every transaction that fails one of the five checks, validate_tx
\* reports the first check that fails, in the order hash, signature,
\* funding, amounts, double spending
C19_ReasonPrecedence ==
    \A tx \in Submittable, public_key \in Keys :
        first_failing(tx, public_key) # ""
            => validate_tx(tx, public_key)
                  = [err_msg |-> first_failing(tx, public_key)]

\* the locations a submitted transaction may cite, inside the chain, before
\* it and beyond it
CitedLocations ==
    [block : (-2)..MaxChain, tx : (-1)..(MaxTx - 1), amount : {1}]

\* C20: for every sender and every location cited, the spent coins that
\* validate_tx adds up over the blocks after the cited block are what the
\* transactions of that sender citing the same block and transaction claim
\* anywhere in the chain
C20_ScanEquivalence ==
    \A sender \in Addresses, locations \in CitedLocations :
        spent_coins(sender, locations)
            = Claimed(Sealed(chain), sender, locations.block, locations.tx)

\* C20 witness: add_tx has answered "double spending!", and a user has spent
\* coins of a position of the chain
C20_Witness ==
    /\ last.op = "add_tx" /\ last.msg = "double spending!"
    /\ \E sender \in UserAddresses, locations \in CitedLocations :
          /\ locations.block >= 0
          /\ spent_coins(sender, locations) > 0

(***************************************************************************)
(* The ledger with any integer amounts: create_coins and send_tx take the  *)
(* receivers as they come, and no check of validate_tx looks at the sign   *)
(* of an amount                                                            *)
(***************************************************************************)
\* receiver amounts, the negative ones and zero included
IntegerAmounts == {-1, 0, 1, 2, 3}

\* receivers dicts of any of these amounts, the empty dict included
IntegerReceiverDicts ==
    UNION {[D -> IntegerAmounts] : D \in SUBSET UserAddresses}

\* the receivers Scrooge creates coins for: positive amounts, or a coin of
\* zero for the second user
IntegerMintChoices ==
    MintChoices
        \cup {[a \in {"addrA", "addrB"} |-> IF a = "addrA" THEN 2 ELSE 0]}

CreateCoinsAnyAmount ==
    /\ \E receivers \in IntegerMintChoices : create_coins(receivers)
    /\ UNCHANGED <<minerVars, retargetVars, threadVars>>

\* a user spends a position where the user is funded, to any receivers
AddTxAnyAmount ==
    \E user \in UserKeys :
        \E locations \in FundedSet(address_of(user)),
           receivers \in IntegerReceiverDicts :
            /\ add_tx(send_tx(user, receivers, locations), user)
            /\ UNCHANGED <<minerVars, retargetVars, threadVars>>

IntegerNext ==
    \/ CreateCoinsAnyAmount
    \/ Mine
    \/ AddTxAnyAmount

SpecIntegers == Init /\ [][IntegerNext]_vars

\* the transaction cites a position of the chain where its sender received
\* exactly locations.amount
cites_whole_coin(tx) ==
    /\ received_coins_raises(tx.sender, tx.locations) = ""
    /\ tx.locations.block >= 0 /\ tx.locations.tx >= 0
    /\ received_coins(tx.sender, tx.locations) = tx.locations.amount

\* every transaction add_tx accepted cites a whole coin of its sender
AcceptedCitesWholeCoin ==
    \A i \in 1..Len(AcceptedStored) : cites_whole_coin(AcceptedStored[i])

\* once a user has a spend of a position sealed, validate_tx rejects every
\* transaction the user makes with send_tx that cites the position again
RespentCoinRejected ==
    \A user \in UserKeys, p \in Positions :
        SealedSpend(address_of(user), p[1], p[2])
            => \A amount \in IntegerAmounts, receivers \in IntegerReceiverDicts :
                  "err_msg" \in DOMAIN
                      validate_tx(send_tx(user, receivers,
                                          [block |-> p[1], tx |-> p[2],
                                           amount |-> amount]), user)

\* C21: every transaction accepted by add_tx cites exactly the amount its
\* sender received at the position cited, and once a spend of a position is
\* sealed every later transaction of the sender citing it is rejected
C21_WholeCoinSpentOnce == AcceptedCitesWholeCoin /\ RespentCoinRejected

\* what does hold: every accepted transaction cites a whole coin, and a
\* position where the user received a positive amount cannot be cited again
\* by the user once a spend of it is sealed
PositiveCoinSpentOnce ==
    /\ AcceptedCitesWholeCoin
    /\ \A user \in UserKeys, p \in Positions :
          (/\ SealedSpend(address_of(user), p[1], p[2])
           /\ chain[p[1] + 1].transactions[p[2] + 1]
                  .receivers[address_of(user)] > 0)
              => \A amount \in IntegerAmounts,
                    receivers \in IntegerReceiverDicts :
                    "err_msg" \in DOMAIN
                        validate_tx(send_tx(user, receivers,
                                            [block |-> p[1], tx |-> p[2],
                                             amount |-> amount]), user)

\* the transaction, sealed in the block at index k, cites a position of an
\* earlier block where its sender is a receiver of exactly locations.amount
cites_earlier_coin(tx, k) ==
    /\ 0 <= tx.locations.block /\ tx.locations.block < k
    /\ 0 <= tx.locations.tx
    /\ tx.locations.tx < Len(chain[tx.locations.block + 1].transactions)
    /\ LET cited == chain[tx.locations.block + 1]
                        .transactions[tx.locations.tx + 1]
       IN  /\ tx.sender \in DOMAIN cited.receivers
           /\ cited.receivers[tx.sender] = tx.locations.amount

\* C22: every transaction of the chain that does not create coins cites a
\* position of an earlier block where its sender received the amount cited
C22_ChainProvenance ==
    \A k \in 0..(Len(chain) - 1) :
        \A i \in 1..Len(chain[k + 1].transactions) :
            chain[k + 1].transactions[i].locations # Minted
                => cites_earlier_coin(chain[k + 1].transactions[i], k)

\* C22 witness: mine has sealed a payment of a coin of an earlier block
C22_Witness ==
    /\ last.op = "mine"
    /\ \E i \in 1..Len(chain[Len(chain)].transactions) :
          /\ chain[Len(chain)].transactions[i].locations # Minted
          /\ cites_earlier_coin(chain[Len(chain)].transactions[i],
                                Len(chain) - 1)

\* every amount Scrooge created in the chain is positive
MintedPositive ==
    \A i \in 1..Len(Sealed(chain)) :
        Sealed(chain)[i].locations = Minted
            => \A a \in DOMAIN Sealed(chain)[i].receivers :
                  Sealed(chain)[i].receivers[a] > 0

\* C23: as long as Scrooge creates positive amounts only, the balance of
\* every user, what the user received in the chain minus what the user's
\* transactions of the chain cite, is never negative
C23_NoNegativeBalance ==
    MintedPositive
        => \A address \in UserAddresses : show_user_balance(address) >= 0

(***************************************************************************)
(* ScroogeCoin.mine and ScroogeCoin.add_tx run by two threads.  Neither     *)
(* method takes a lock, so their statements interleave.  The block dict     *)
(* built at lines 235-241 holds a reference to the list object that         *)
(* self.current_transactions names: until line 253 binds the name to a new  *)
(* empty list, an append to the pending list is an append to the block's    *)
(* 'transactions'.                                                          *)
(***************************************************************************)

\* the pending list and the chain after list.append(tx) on the pending list:
\* once the block mine() holds is in the chain and the name is not rebound
\* yet, the last block's 'transactions' is the same list object
append_pending(tx) ==
    /\ current_transactions' = Append(current_transactions, tx)
    /\ chain' = IF sealing.pc = "appended"
                THEN [chain EXCEPT ![Len(chain)].transactions = Append(@, tx)]
                ELSE chain

\* the transactions the ledger holds, every list object counted once
StoredOnce ==
    IF sealing.pc = "appended" THEN Sealed(chain) ELSE Stored

\* mine(), lines 235-241: the block dict, its 'transactions' being the
\* pending list itself
mine_build ==
    /\ sealing.pc = "idle"
    /\ Len(chain) < MaxChain
    /\ sealing' = [pc |-> "built",
                   previous_hash |-> new_block.previous_hash,
                   index |-> new_block.index]
    /\ UNCHANGED <<chain, current_transactions, adding, accepted, last>>

\* mine(), line 244: block["hash"] = self.create_hash(block)
mine_hash ==
    /\ sealing.pc = "built"
    /\ sealing' = [pc |-> "hashed",
                   previous_hash |-> sealing.previous_hash,
                   index |-> sealing.index,
                   hash |-> create_hash(
                       [previous_hash |-> sealing.previous_hash,
                        index |-> sealing.index,
                        transactions |-> current_transactions])]
    /\ UNCHANGED <<chain, current_transactions, adding, accepted, last>>

\* mine(), line 247: block["signature"] = self.sign(block["hash"])
mine_sign ==
    /\ sealing.pc = "hashed"
    /\ sealing' = [pc |-> "signed",
                   previous_hash |-> sealing.previous_hash,
                   index |-> sealing.index,
                   hash |-> sealing.hash,
                   signature |-> sign(sealing.hash, ScroogeKey)]
    /\ UNCHANGED <<chain, current_transactions, adding, accepted, last>>

\* mine(), line 250: self.chain.append(block)
mine_append ==
    /\ sealing.pc = "signed"
    /\ chain' = Append(chain, [previous_hash |-> sealing.previous_hash,
                               index |-> sealing.index,
                               transactions |-> current_transactions,
                               hash |-> sealing.hash,
                               signature |-> sealing.signature])
    /\ sealing' = [pc |-> "appended"]
    /\ UNCHANGED <<current_transactions, adding, accepted, last>>

\* mine(), lines 253-255: self.current_transactions = [] and return block
mine_clear ==
    /\ sealing.pc = "appended"
    /\ current_transactions' = <<>>
    /\ sealing' = NoCall
    /\ last' = Returned("mine", "block", "")
    /\ UNCHANGED <<chain, adding, accepted>>

\* add_tx(tx, public_key), lines 274-277: validate_tx and the comparison
add_tx_validate(tx, public_key) ==
    LET tx_validated == validate_tx(tx, public_key)
        is_valid == ([returned |-> tx] = tx_validated)
    IN  /\ adding.pc = "idle"
        /\ IF "raised" \in DOMAIN tx_validated
           THEN /\ last' = Returned("add_tx", "raised", tx_validated.raised)
                /\ UNCHANGED adding
           ELSE IF is_valid
           THEN /\ Len(StoredOnce) < MaxTx
                /\ adding' = [pc |-> "validated", tx |-> tx]
                /\ UNCHANGED last
           ELSE /\ last' = Returned("add_tx", "False", tx_validated.err_msg)
                /\ UNCHANGED adding
        /\ UNCHANGED <<chain, current_transactions, sealing, accepted>>

\* add_tx, lines 279-280: self.current_transactions.append(tx), return True
add_tx_append ==
    /\ adding.pc = "validated"
    /\ append_pending(adding.tx)
    /\ accepted' = Append(accepted, adding.tx)
    /\ adding' = NoCall
    /\ last' = Returned("add_tx", "True", "")
    /\ UNCHANGED sealing

\* create_coins is called while no thread is inside mine or add_tx: the
\* threads that interleave are the one in mine and the one in add_tx
CreateCoinsSerialized ==
    /\ sealing.pc = "idle"
    /\ adding.pc = "idle"
    /\ CreateCoins

MineBuild == mine_build /\ UNCHANGED <<minerVars, retargetVars>>

MineHash == mine_hash /\ UNCHANGED <<minerVars, retargetVars>>

MineSign == mine_sign /\ UNCHANGED <<minerVars, retargetVars>>

MineAppend == mine_append /\ UNCHANGED <<minerVars, retargetVars>>

MineClear == mine_clear /\ UNCHANGED <<minerVars, retargetVars>>

AddTxValidate ==
    \E user \in UserKeys :
        \E locations \in FundedSet(address_of(user)),
           receivers \in ReceiverDicts :
            /\ add_tx_validate(send_tx(user, receivers, locations), user)
            /\ UNCHANGED <<minerVars, retargetVars>>

AddTxAppend == add_tx_append /\ UNCHANGED <<minerVars, retargetVars>>

ThreadsNext ==
    \/ CreateCoinsSerialized
    \/ MineBuild
    \/ MineHash
    \/ MineSign
    \/ MineAppend
    \/ MineClear
    \/ AddTxValidate
    \/ AddTxAppend

SpecThreads == Init /\ [][ThreadsNext]_vars

\* every transaction add_tx returned True for is held once, in a sealed
\* block or in the pending list, in the order of acceptance
NoAcceptedLost ==
    SelectSeq(StoredOnce, LAMBDA tx : tx.locations # Minted) = accepted

\* the stored hash of every block of the chain is the hash of the block's
\* previous_hash, index and transactions
StoredHashMatches ==
    \A k \in 1..Len(chain) :
        chain[k].hash = create_hash([previous_hash |-> chain[k].previous_hash,
                                     index |-> chain[k].index,
                                     transactions |-> chain[k].transactions])

\* C24: when the steps of mine interleave with a concurrent add_tx, no
\* transaction add_tx accepted is lost (it is in exactly one sealed block
\* or pending) and every sealed block's stored hash matches its
\* transaction list
C24_MineAtomicAgainstAddTx == NoAcceptedLost /\ StoredHashMatches

\* what does hold of the interleavings: the stored hash is the hash of the
\* block with the transactions its list held when line 244 ran, a prefix of
\* the list
StoredHashOfPrefix ==
    \A k \in 1..Len(chain) :
        \E n \in 0..Len(chain[k].transactions) :
            chain[k].hash =
                create_hash([previous_hash |-> chain[k].previous_hash,
                             index |-> chain[k].index,
                             transactions |->
                                 SubSeq(chain[k].transactions, 1, n)])

(***************************************************************************)
(* The chains only grow                                                    *)
(***************************************************************************)

\* the blocks of before are the first blocks of after, field by field
IsPrefix(before, after) ==
    /\ Len(before) <= Len(after)
    /\ \A i \in 1..Len(before) : after[i] = before[i]

\* no step of the ledger changes a block of ScroogeCoin.chain
LedgerAppendOnly == [][IsPrefix(chain, chain')]_vars

\* C25: no operation of the ledger (create_coins, add_tx, mine) and no
\* operation of the Miner (genesis_block, make_empty_block, mine) removes,
\* reorders or changes a block that is already in the chain: the chain
\* before the operation is a prefix of the chain after it
C25_AppendOnly ==
    [][IsPrefix(chain, chain') /\ IsPrefix(MinerBlocks, MinerBlocks')]_vars

\* what does hold of the Miner: the chain keeps the blocks it refers to, in
\* their order (the dicts themselves are rewritten by a second mine)
MinerKeepsReferences == [][IsPrefix(Miner_chain, Miner_chain')]_vars

(***************************************************************************)
(* Pending transactions                                                    *)
(***************************************************************************)

\* C26: create_coins and add_tx change neither what get_user_tx_positions
\* returns nor the balance of any address, and the transaction add_tx
\* accepts cites a coin of a sealed block: a coin minted or received in a
\* pending transaction cannot be cited before mine has sealed it
C26_PendingInvisible ==
    [][/\ last'.op \in {"create_coins", "add_tx"} =>
            \A address \in Addresses :
                /\ get_user_tx_positions(address)'
                       = get_user_tx_positions(address)
                /\ show_user_balance(address)' = show_user_balance(address)
       /\ (last'.op = "add_tx" /\ last'.ret = "True") =>
            cites_earlier_coin(
                current_transactions'[Len(current_transactions')],
                Len(chain))]_vars

\* C26 witness: add_tx has accepted a payment to an address that has no
\* sealed coin, behind a pending minted coin for the same address, and the
\* address still has no funded position and a balance of 0
C26_Witness ==
    /\ last.op = "add_tx" /\ last.ret = "True"
    /\ Len(current_transactions) = 2
    /\ current_transactions[1].locations = Minted
    /\ \E address \in UserAddresses :
          /\ address \in DOMAIN current_transactions[1].receivers
          /\ address \in DOMAIN current_transactions[2].receivers
          /\ current_transactions[2].sender # address
          /\ get_user_tx_positions(address) = <<>>
          /\ show_user_balance(address) = 0

(***************************************************************************)
(* Termination of Miner.mine                                               *)
(***************************************************************************)

\* a call of Miner.mine runs on: a turn of the loop that can be taken is
\* taken, and so is the return once the loop is left
SpecMinerFair ==
    SpecMiner /\ WF_vars(MineLoop) /\ WF_vars(MineReturn)

\* the nonces from the block's own on that give a hash below the target
found_by(block) ==
    {nonce \in block.nonce..MaxNonce :
        ~mine_continues([block EXCEPT !.nonce = nonce])}

\* no nonce gives the block a hash below its target
unreachable(block) ==
    \A nonce \in 0..MaxNonce : mine_continues([block EXCEPT !.nonce = nonce])

\* a mine of a block that some nonce from its own on brings below the
\* target returns, the block being the last of the chain
MineTerminates ==
    \A block \in 1..MaxBlocks :
        (/\ mining = block
         /\ found_by(heap[block]) # {}
         /\ Len(Miner_chain) < MaxMined)
        ~> (/\ mining = 0
            /\ last.op = "Miner.mine"
            /\ Len(Miner_chain) > 0
            /\ Miner_chain[Len(Miner_chain)] = block
            /\ "hash" \in DOMAIN heap[block])

\* a mine of a block whose target no hash is below neither returns nor
\* appends to the chain
MineRunsForever ==
    [][(mining # 0 /\ unreachable(heap[mining])) =>
           (mining' = mining /\ Miner_chain' = Miner_chain)]_vars

\* C27: Miner.mine(block) returns, with the block sealed and appended,
\* whenever some nonce at or above the block's own gives a hash below the
\* target; when no hash is below the target (bits with a zero mantissa,
\* target 0) the loop never ends and nothing is appended to the chain
C27_MiningTermination == MineTerminates /\ MineRunsForever

\* C27 witness: a block mined with a nonce the loop had to raise is in the
\* chain, and a mine of a block of target 0 has run to the last nonce of
\* the model
C27_Witness ==
    /\ Len(Miner_chain) > 0
    /\ heap[Miner_chain[1]].nonce > 0
    /\ mining # 0
    /\ get_target_from_bits(heap[mining].bits) = <<>>
    /\ unreachable(heap[mining])
    /\ heap[mining].nonce = MaxNonce

(***************************************************************************)
(* What the compact form loses                                             *)
(***************************************************************************)

\* get_bits_from_target has returned bits for a target of three bytes or
\* more
Encoded ==
    /\ last.op = "get_bits_from_target"
    /\ "returned" \in DOMAIN new_bits
    /\ Len(new_target.returned) >= 3

\* the target with every byte below its first three set to zero
top_three_bytes(digits) == SubSeq(digits, 1, 3) \o Zeros(Len(digits) - 3)

\* whether some byte below the first three is not zero
low_bytes_set(digits) == \E i \in 4..Len(digits) : digits[i] # 0

\* C28: for a target t of three significant bytes or more, the bits
\* get_bits_from_target(t) have the number of bytes of t as exponent and a
\* mantissa that fits in 24 bits, the three first bytes of t; and
\* get_target_from_bits of these bits is t with every bit below its three
\* first bytes cleared, which is at most t, and is t exactly when those
\* bits are zero
C28_PrecisionLoss ==
    Encoded =>
        LET t == new_target.returned
            bits_of_t == new_bits.returned
            decoded == get_target_from_bits(bits_of_t)
        IN  /\ bits_of_t \div 16777216 = Len(t)
            /\ mantissa_of(bits_of_t) = FromDigits(SubSeq(t, 1, 3))
            /\ decoded = top_three_bytes(t)
            /\ ~Less(t, decoded)
            /\ (decoded = t) <=> ~low_bytes_set(t)

\* C28 witness: a target with bits set below its three first bytes has been
\* encoded, and its bits decode to a smaller target
C28_Witness ==
    /\ Encoded
    /\ low_bytes_set(new_target.returned)
    /\ Less(get_target_from_bits(new_bits.returned), new_target.returned)

\* a target whose low bytes are zero has been encoded and comes back
EncodedExactly ==
    /\ Encoded
    /\ Len(new_target.returned) > 3
    /\ get_target_from_bits(new_bits.returned) = new_target.returned

====
